---- MODULE Spec2Model ----
(***************************************************************************)
(* NoteEditor (src/app/components/NoteEditor.jsx): an auto-saving note     *)
(* editor.  One component instance is modelled from its first render to    *)
(* after its unmount: the props it is given, its four state cells, the     *)
(* liveness ref, the initial GET, the two debounced functions and the PUT  *)
(* requests in flight.                                                     *)
(*                                                                         *)
(* Time is explicit: Tick advances the clock by TickMs and a debounce      *)
(* timer that has reached 0 fires before the clock advances again.         *)
(* Network latency is unconstrained: a response may arrive after any       *)
(* number of ticks.                                                        *)
(*                                                                         *)
(* A state cell (value, title, isLoading, isSaving) holds what the last    *)
(* call of its setter passed: a setter call after unmount is recorded as   *)
(* an assignment, although nothing is rendered from it any more.           *)
(*                                                                         *)
(* The component is a client component of the Next.js app router, hence    *)
(* React 18 or later: setter calls made in one continuation are batched    *)
(* into one render, and the effects of that render see all of them.        *)
(***************************************************************************)
EXTENDS Integers, Sequences, FiniteSets, TLC

\* ---------------------------------------------------------------- bounds
\* Changes (edits of title/content, changes of the logoText prop) per run.
MaxEdits == 2

\* ------------------------------------------------------ program constants
SaveDelayMs == 1000
NotifyDelayMs == 500
\* The clock's granularity: the shorter of the two debounce windows.
TickMs == NotifyDelayMs
DefaultLogo == "NoteSpace"

\* ------------------------------------------------------------ value sets
Undefined == "<undefined>"
NoId == ""
NoteIds == {NoId, "n1"}
Contents == {"", "a"}
Titles == {"", "t"}
Logos == {DefaultLogo, "Acme"}
NoTimer == -1

\* JS `x || ""` on a string or undefined.
OrEmpty(x) == IF x = Undefined \/ x = "" THEN "" ELSE x

NoData == [present |-> FALSE, content |-> Undefined, title |-> Undefined]
InitialDatas ==
    {NoData, [present |-> TRUE, content |-> "", title |-> ""],
     [present |-> TRUE, content |-> "a", title |-> "t"]}

\* What GET /api/note/:id can produce: a body with success, a body without
\* it, or a rejected fetch / unparsable body.
Responses ==
    [kind : {"ok", "nosuccess"}, content : {Undefined, "a"},
     title : {Undefined, "t"}]
    \cup {[kind |-> "throw", content |-> Undefined, title |-> Undefined]}

NoArgs == [content |-> Undefined, title |-> Undefined, logoText |-> Undefined]
Idle == [ms |-> NoTimer, args |-> NoArgs]

VARIABLES
    noteId, initialData, logoText, isDisabled, onTitleChange, onContentChange,
    value, title, isLoading, isSaving, isMounted,
    pc, loadReq, gets,
    debouncedSave, debouncedContentChange,
    inflight, putCount, lastPut, failedSaves,
    titleCalls, lastTitleArg, contentCalls, lastContentArg,
    homepageCalls, lastHomepageArg, orphans,
    edits, sinceEdit, burstPuts, bursts, notifyBurstCalls

props == <<noteId, initialData, isDisabled, onTitleChange, onContentChange>>
cells == <<value, title, isLoading, isSaving>>
net == <<loadReq, gets, inflight, putCount, lastPut, failedSaves>>
calls == <<titleCalls, lastTitleArg, contentCalls, lastContentArg>>
hcalls == <<homepageCalls, lastHomepageArg, orphans>>
hist == <<edits, sinceEdit, burstPuts, bursts, notifyBurstCalls>>
vars == <<props, logoText, cells, isMounted, pc, net, debouncedSave,
          debouncedContentChange, calls, hcalls, hist>>

\* ------------------------------------------------------ pure conditions
\* useState(!initialData && !!noteId)
InitIsLoading_False(data, nid) == FALSE
InitIsLoading(data, nid) == ~data.present /\ nid # NoId

\* `if (!noteId || initialData) return;` negated
ShouldLoad_IgnoresNoteId(nid, data) == ~data.present
ShouldLoad(nid, data) == ~(nid = NoId \/ data.present)

\* `if (noteId && !isLoading)`
ShouldSave_NoLoadingGuard(nid, loading) == nid # NoId
ShouldSave(nid, loading) == nid # NoId /\ ~loading

\* `if (onContentChange && noteId)`
NotifyContentNow_Never(cb, nid) == FALSE
NotifyContentNow(cb, nid) == cb /\ nid # NoId

\* `if (!noteId && onHomepageContentChange)`; both aliases name one prop
ShouldNotifyHomepage(nid, cb) == nid = NoId /\ cb

\* The arguments a debounced call is made with.
Args_StaleLogo(c, t, l) == [content |-> c, title |-> t, logoText |-> DefaultLogo]
Args(c, t, l) == [content |-> c, title |-> t, logoText |-> l]

\* JSON body of the PUT: {content: newContent, title: newTitle, logoText: newLogo}
SaveBody_Swapped(newContent, newTitle, newLogo) ==
    [content |-> newTitle, title |-> newContent, logoText |-> newLogo]
SaveBody(newContent, newTitle, newLogo) ==
    [content |-> newContent, title |-> newTitle, logoText |-> newLogo]

\* debounce(fn, delay) of lib/utils: a call replaces the pending call, if
\* any, and arms a fresh timer of `delay` ms.
Debounce(d, delay, args) == [ms |-> delay, args |-> args]

\* title / content after the load's continuation
LoadedValue(resp, cur) ==
    IF resp.kind = "ok" THEN OrEmpty(resp.content) ELSE cur
LoadedTitle(resp, cur) ==
    IF resp.kind = "ok" THEN OrEmpty(resp.title) ELSE cur

\* isLoading after the load's continuation: `finally { setIsLoading(false) }`
LoadingAfter_OnlyOnSuccess(resp, cur) ==
    IF resp.kind = "ok" THEN FALSE ELSE cur
LoadingAfter(resp, cur) == FALSE

\* `if (isMounted.current) setIsSaving(true)` before the fetch
SavingOnStart_Unguarded(mounted, cur) == TRUE
SavingOnStart(mounted, cur) == IF mounted THEN TRUE ELSE cur

\* `finally { if (isMounted.current) setIsSaving(false) }`
SavingAfter_OnlyOnSuccess(ok, mounted, cur) ==
    IF mounted /\ ok THEN FALSE ELSE cur
SavingAfter(ok, mounted, cur) == IF mounted THEN FALSE ELSE cur

\* The render branches: inputs exist in the normal view only.
View_DisabledFirst == IF isDisabled THEN "Disabled"
                      ELSE IF isLoading THEN "Loading" ELSE "Normal"
View_NoLoading == IF isDisabled THEN "Disabled" ELSE "Normal"
View == IF isLoading THEN "Loading"
        ELSE IF isDisabled THEN "Disabled" ELSE "Normal"

Min(a, b) == IF a < b THEN a ELSE b
Max(a, b) == IF a > b THEN a ELSE b

\* ------------------------------------------------------------------ Init
Init ==
    /\ noteId \in NoteIds
    /\ initialData \in InitialDatas
    /\ logoText = DefaultLogo
    /\ isDisabled \in BOOLEAN
    /\ onTitleChange \in BOOLEAN
    /\ onContentChange \in BOOLEAN
    /\ value = OrEmpty(initialData.content)
    /\ title = OrEmpty(initialData.title)
    /\ isLoading = InitIsLoading(initialData, noteId)
    /\ isSaving = FALSE
    /\ isMounted = TRUE
    /\ pc = "rendered"
    /\ loadReq = "idle"
    /\ gets = 0
    /\ debouncedSave = Idle
    /\ debouncedContentChange = Idle
    /\ inflight = <<>>
    /\ putCount = 0
    /\ lastPut = NoArgs
    /\ failedSaves = 0
    /\ titleCalls = 0
    /\ lastTitleArg = Undefined
    /\ contentCalls = 0
    /\ lastContentArg = Undefined
    /\ homepageCalls = 0
    /\ lastHomepageArg = NoArgs
    /\ orphans = <<>>
    /\ edits = 0
    /\ sinceEdit = SaveDelayMs
    /\ burstPuts = 0
    /\ bursts = 0
    /\ notifyBurstCalls = 0

\* ------------------------------------------------- the change effect
\* useEffect(..., [value, title, logoText]) run after a render that showed
\* value v, title t, logoText l and isLoading `loading`.
ChangeEffect(v, t, l, loading) ==
    /\ titleCalls' = IF onTitleChange THEN titleCalls + 1 ELSE titleCalls
    /\ lastTitleArg' = IF onTitleChange THEN t ELSE lastTitleArg
    /\ contentCalls' = IF NotifyContentNow(onContentChange, noteId)
                       THEN contentCalls + 1 ELSE contentCalls
    /\ lastContentArg' = IF NotifyContentNow(onContentChange, noteId)
                         THEN v ELSE lastContentArg
    /\ debouncedSave' =
          IF ShouldSave(noteId, loading)
          THEN Debounce(debouncedSave, SaveDelayMs, Args(v, t, l))
          ELSE debouncedSave
    /\ debouncedContentChange' =
          IF ShouldNotifyHomepage(noteId, onContentChange)
          THEN Debounce(debouncedContentChange, NotifyDelayMs,
                        Args(v, t, Undefined))
          ELSE debouncedContentChange

\* Bookkeeping of a change made now.  Bursts are bursts of the changes made
\* once the load is complete: such a change opens a new burst when the
\* previous one is at least the save window old (a new burst of the
\* homepage notification when it is at least the notification window old).
NoteChange ==
    /\ edits' = edits + 1
    /\ IF isLoading
       THEN UNCHANGED <<sinceEdit, bursts, burstPuts, notifyBurstCalls>>
       ELSE /\ sinceEdit' = 0
            /\ bursts' = IF sinceEdit >= SaveDelayMs THEN bursts + 1 ELSE bursts
            /\ burstPuts' = IF sinceEdit >= SaveDelayMs THEN 0 ELSE burstPuts
            /\ notifyBurstCalls' = IF sinceEdit >= NotifyDelayMs
                                   THEN 0 ELSE notifyBurstCalls

\* --------------------------------------------------------------- actions
\* Commit of the first render: the three effects run in order.
Mount ==
    /\ pc = "rendered"
    /\ pc' = "mounted"
    /\ IF ShouldLoad(noteId, initialData)
       THEN /\ isLoading' = TRUE
            /\ loadReq' = "pending"
            /\ gets' = gets + 1
       ELSE UNCHANGED <<isLoading, loadReq, gets>>
    /\ ChangeEffect(value, title, logoText, isLoading)
    /\ UNCHANGED <<props, logoText, value, title, isSaving, isMounted,
                   inflight, putCount, lastPut, failedSaves, hcalls, hist>>

\* onChange of the textarea
EditContent(v) ==
    /\ pc = "mounted" /\ View = "Normal"
    /\ edits < MaxEdits
    /\ v # value
    /\ value' = v
    /\ ChangeEffect(v, title, logoText, isLoading)
    /\ NoteChange
    /\ UNCHANGED <<props, logoText, title, isLoading, isSaving, isMounted,
                   pc, net, hcalls>>

\* onChange of the title input
EditTitle(t) ==
    /\ pc = "mounted" /\ View = "Normal"
    /\ edits < MaxEdits
    /\ t # title
    /\ title' = t
    /\ ChangeEffect(value, t, logoText, isLoading)
    /\ NoteChange
    /\ UNCHANGED <<props, logoText, value, isLoading, isSaving, isMounted,
                   pc, net, hcalls>>

\* The parent re-renders the component with another logoText.
ChangeLogo(l) ==
    /\ pc = "mounted"
    /\ edits < MaxEdits
    /\ l # logoText
    /\ logoText' = l
    /\ ChangeEffect(value, title, l, isLoading)
    /\ NoteChange
    /\ UNCHANGED <<props, cells, isMounted, pc, net, hcalls>>

\* The continuation of loadNote after `await fetch` / `await res.json()`.
LoadComplete(resp) ==
    /\ loadReq = "pending"
    /\ loadReq' = resp.kind
    /\ value' = LoadedValue(resp, value)
    /\ title' = LoadedTitle(resp, title)
    /\ isLoading' = LoadingAfter(resp, isLoading)
    /\ IF isMounted /\ (value' # value \/ title' # title)
       THEN ChangeEffect(value', title', logoText, isLoading')
       ELSE UNCHANGED <<debouncedSave, debouncedContentChange, calls>>
    /\ UNCHANGED <<props, logoText, isSaving, isMounted, pc, gets, inflight,
                   putCount, lastPut, failedSaves, hcalls, hist>>

\* The save timer expires: saveNote runs up to its `await fetch`.
FireSave ==
    /\ debouncedSave.ms = 0
    /\ debouncedSave' = Idle
    /\ IF noteId = NoId
       THEN UNCHANGED <<isSaving, inflight, putCount, lastPut, burstPuts>>
       ELSE /\ isSaving' = SavingOnStart(isMounted, isSaving)
            /\ inflight' = Append(inflight, SaveBody(debouncedSave.args.content,
                                                     debouncedSave.args.title,
                                                     debouncedSave.args.logoText))
            /\ putCount' = putCount + 1
            /\ lastPut' = SaveBody(debouncedSave.args.content,
                                   debouncedSave.args.title,
                                   debouncedSave.args.logoText)
            /\ burstPuts' = burstPuts + 1
    /\ UNCHANGED <<props, logoText, value, title, isLoading, isMounted, pc,
                   loadReq, gets, failedSaves, debouncedContentChange, calls,
                   hcalls, edits, sinceEdit, bursts, notifyBurstCalls>>

\* The i-th PUT in flight settles, resolved (ok) or rejected: `catch` logs
\* the rejection, `finally` clears the flag.
SaveComplete(i, ok) ==
    /\ i \in 1..Len(inflight)
    /\ inflight' = SubSeq(inflight, 1, i - 1) \o
                   SubSeq(inflight, i + 1, Len(inflight))
    /\ failedSaves' = IF ok THEN failedSaves ELSE failedSaves + 1
    /\ isSaving' = SavingAfter(ok, isMounted, isSaving)
    /\ UNCHANGED <<props, logoText, value, title, isLoading, isMounted, pc,
                   loadReq, gets, putCount, lastPut, debouncedSave,
                   debouncedContentChange, calls, hcalls, hist>>

\* The debounced homepage callback runs with the arguments `args`.
HomepageCallback(args) ==
    IF onContentChange
    THEN /\ homepageCalls' = homepageCalls + 1
         /\ lastHomepageArg' = args
         /\ notifyBurstCalls' = notifyBurstCalls + 1
    ELSE UNCHANGED <<homepageCalls, lastHomepageArg, notifyBurstCalls>>

\* The homepage timer expires.  Timers of equal delay run in the order they
\* were set: those of superseded debounced functions run first.
FireNotify ==
    /\ debouncedContentChange.ms = 0
    /\ \A i \in 1..Len(orphans) : orphans[i].ms # 0
    /\ debouncedContentChange' = Idle
    /\ HomepageCallback(debouncedContentChange.args)
    /\ UNCHANGED <<props, logoText, cells, isMounted, pc, net, debouncedSave,
                   calls, orphans, edits, sinceEdit, burstPuts, bursts>>

\* The parent re-renders the component with another function as
\* onContentChange: useCallback(debounce(...), [onContentChange]) returns a
\* new debounced function.  The call pending in the previous one is not
\* cancelled; its timer keeps running.
RebindCallback ==
    /\ pc = "mounted"
    /\ onContentChange
    /\ debouncedContentChange' = Idle
    /\ orphans' = IF debouncedContentChange.ms = NoTimer
                  THEN orphans ELSE Append(orphans, debouncedContentChange)
    /\ UNCHANGED <<props, logoText, cells, isMounted, pc, net, debouncedSave,
                   calls, homepageCalls, lastHomepageArg, hist>>

\* The timer of a superseded debounced function expires: the oldest first.
FireOrphan ==
    /\ orphans # <<>>
    /\ orphans[1].ms = 0
    /\ orphans' = Tail(orphans)
    /\ HomepageCallback(orphans[1].args)
    /\ UNCHANGED <<props, logoText, cells, isMounted, pc, net, debouncedSave,
                   debouncedContentChange, calls, edits, sinceEdit, burstPuts,
                   bursts>>

\* Cleanup of the first effect.
Unmount ==
    /\ pc = "mounted"
    /\ pc' = "unmounted"
    /\ isMounted' = FALSE
    /\ UNCHANGED <<props, logoText, cells, net, debouncedSave,
                   debouncedContentChange, calls, hcalls, hist>>

Advance(d) ==
    IF d.ms = NoTimer THEN d ELSE [d EXCEPT !.ms = Max(0, d.ms - TickMs)]

\* TickMs pass.  An expired timer runs first.
Tick ==
    /\ pc # "rendered"
    /\ debouncedSave.ms # 0 /\ debouncedContentChange.ms # 0
    /\ \A i \in 1..Len(orphans) : orphans[i].ms # 0
    /\ debouncedSave' = Advance(debouncedSave)
    /\ debouncedContentChange' = Advance(debouncedContentChange)
    /\ orphans' = [i \in 1..Len(orphans) |-> Advance(orphans[i])]
    /\ sinceEdit' = Min(SaveDelayMs, sinceEdit + TickMs)
    /\ UNCHANGED <<props, logoText, cells, isMounted, pc, net, calls,
                   homepageCalls, lastHomepageArg, edits, burstPuts, bursts,
                   notifyBurstCalls>>

Next ==
    \/ Mount
    \/ \E v \in Contents : EditContent(v)
    \/ \E t \in Titles : EditTitle(t)
    \/ \E l \in Logos : ChangeLogo(l)
    \/ \E r \in Responses : LoadComplete(r)
    \/ FireSave
    \/ \E i \in 1..(MaxEdits + 2), ok \in BOOLEAN : SaveComplete(i, ok)
    \/ FireNotify
    \/ RebindCallback
    \/ FireOrphan
    \/ Unmount
    \/ Tick

Spec == Init /\ [][Next]_vars

\* The first render's effects are committed and the GET settles.
LiveSpec ==
    /\ Spec
    /\ WF_vars(Mount)
    /\ WF_vars(\E r \in Responses : LoadComplete(r))

\* Time passes, and a save timer that has expired runs.
TimerSpec == Spec /\ WF_vars(Tick \/ FireSave)

\* ================================================================ claims
HasNoteId == noteId # NoId
NeedsLoad == noteId # NoId /\ ~initialData.present
Current == [content |-> value, title |-> title, logoText |-> logoText]
LoadFailed == loadReq \in {"nosuccess", "throw"}
UserEdit == edits' = edits + 1 /\ (value' # value \/ title' # title)

\* C1: with noteId set, at most one PUT of the instance is in flight in
\* every reachable state, whatever the edit timing and the PUT latency.
C1_AtMostOneSaveInFlight == HasNoteId => Len(inflight) <= 1

\* C2: once the component is unmounted, no step (a load or a save
\* completing) changes content, title, isLoading or isSaving.
C2_NoStateChangeAfterUnmount == [][~isMounted => UNCHANGED cells]_vars

\* C3: with isDisabled true no GET and no PUT is ever issued.
C3_DisabledIssuesNoRequest == isDisabled => gets = 0 /\ putCount = 0

\* C4: with noteId set and the load complete, the changes of one burst
\* (each less than the save window after the previous one) lead to exactly
\* one PUT: none while the burst's timer is pending, which holds the
\* current content, title and logoText, and one once it has fired, whose
\* body is the content, title and logoText current after the last change.
C4_OneSavePerBurst ==
    (HasNoteId /\ bursts >= 1) =>
        /\ debouncedSave.ms # NoTimer =>
              /\ burstPuts = 0
              /\ debouncedSave.args = Current
        /\ debouncedSave.ms = NoTimer =>
              /\ burstPuts = 1
              /\ lastPut = Current

C4_Witness ==
    /\ HasNoteId /\ loadReq = "ok"
    /\ edits = 2 /\ bursts = 1 /\ burstPuts = 1
    /\ debouncedSave.ms = NoTimer
    /\ value = "a" /\ title = "t" /\ lastPut = Current

\* C5: with noteId set, whenever no save is pending the number of PUTs
\* issued equals the number of bursts of changes.
C5_OnePutPerBurst ==
    (HasNoteId /\ debouncedSave.ms = NoTimer) => putCount = bursts

\* C6: with noteId set and no initialData the component starts with
\* isLoading true, issues exactly one GET at mount, isLoading is true
\* exactly until that GET settles, it eventually becomes false whatever the
\* outcome, and once false it never becomes true again.
C6_LoadOnceAndClear ==
    /\ [](NeedsLoad =>
            /\ pc = "rendered" => isLoading /\ gets = 0
            /\ pc # "rendered" => gets = 1
            /\ isLoading <=> loadReq \in {"idle", "pending"})
    /\ [][NeedsLoad /\ ~isLoading => ~isLoading']_vars
    /\ [](NeedsLoad => <>(~isLoading))

C6_Witness ==
    NeedsLoad /\ loadReq = "nosuccess" /\ ~isLoading /\ gets = 1

\* C7: while mounted, isSaving is true exactly when a PUT is in flight.
C7_SavingIffInFlight == isMounted => (isSaving <=> Len(inflight) > 0)

\* C8: with noteId set, the step of every edit of title or content calls
\* onTitleChange(title) once and onContentChange(content) once, each when
\* supplied, with the values after the edit, whatever the state of saving.
C8_ImmediateNotify ==
    [][(HasNoteId /\ UserEdit) =>
          /\ onTitleChange =>
                titleCalls' = titleCalls + 1 /\ lastTitleArg' = title'
          /\ onContentChange =>
                contentCalls' = contentCalls + 1 /\ lastContentArg' = value'
      ]_vars

\* An edit made while a PUT is in flight has been notified.
C8_Witness ==
    /\ HasNoteId /\ onTitleChange /\ onContentChange
    /\ Len(inflight) > 0 /\ bursts = 2 /\ sinceEdit = 0
    /\ contentCalls >= 3 /\ lastContentArg = value

\* C9 as stated: with noteId unset the component is never loading, starts
\* empty without initialData, issues no GET and no PUT, and reports changes
\* through the debounced notification only (no immediate callback).
C9_NoIdOnlyDebouncedReports ==
    ~HasNoteId =>
        /\ ~isLoading /\ gets = 0 /\ putCount = 0
        /\ (~initialData.present /\ pc = "rendered") => value = "" /\ title = ""
        /\ contentCalls = 0
        /\ titleCalls = 0

\* C9 amended: as above, but onTitleChange - when supplied - is called
\* immediately, once at mount and once per change; content is reported
\* through the debounced notification only.
C9_NoIdNoRequests ==
    ~HasNoteId =>
        /\ ~isLoading /\ gets = 0 /\ putCount = 0
        /\ (~initialData.present /\ pc = "rendered") => value = "" /\ title = ""
        /\ contentCalls = 0
        /\ titleCalls = IF onTitleChange /\ pc # "rendered"
                        THEN edits + 1 ELSE 0

C9_Witness ==
    /\ ~HasNoteId /\ ~initialData.present /\ onTitleChange
    /\ edits = 2 /\ titleCalls = 3
    /\ homepageCalls >= 1 /\ lastHomepageArg.content = value

\* C10: a load that fails or lacks success leaves title and content as
\* they were (empty), clears isLoading, issues no second GET and schedules
\* nothing; afterwards isLoading stays false, and every change arms the
\* save timer with the current content, title and logoText.
C10_LoadFailureAbsorbed ==
    /\ [][(loadReq = "pending" /\ loadReq' \in {"nosuccess", "throw"}) =>
            /\ value' = value /\ title' = title
            /\ value' = "" /\ title' = ""
            /\ ~isLoading'
            /\ gets' = gets
            /\ debouncedSave' = debouncedSave
        ]_vars
    /\ [](LoadFailed => ~isLoading /\ gets = 1)
    /\ [][(LoadFailed /\ edits' = edits + 1) =>
            debouncedSave' = [ms |-> SaveDelayMs, args |-> Current']
        ]_vars

C10_Witness ==
    /\ loadReq = "throw" /\ edits >= 1
    /\ putCount = 1 /\ lastPut.content = "a" /\ value = "a"

\* C11: a PUT that is rejected changes neither title nor content, clears
\* isSaving when the component is mounted (and touches nothing when it is
\* not), and arms no timer and issues no PUT: a PUT is only ever issued by
\* the expiry of a save timer, which only a change effect arms.
C11_SaveFailureAbsorbed ==
    /\ [][failedSaves' = failedSaves + 1 =>
            /\ value' = value /\ title' = title /\ isLoading' = isLoading
            /\ isSaving' = (IF isMounted THEN FALSE ELSE isSaving)
            /\ debouncedSave' = debouncedSave
            /\ putCount' = putCount
        ]_vars
    /\ [][putCount' # putCount =>
            /\ debouncedSave.ms = 0 /\ debouncedSave' = Idle
            /\ putCount' = putCount + 1
        ]_vars
    /\ [][(debouncedSave' # debouncedSave /\ debouncedSave'.ms = SaveDelayMs) =>
            \/ pc = "rendered"
            \/ Current' # Current
        ]_vars

\* A save failed while mounted, and a later change led to the next PUT.
C11_Witness ==
    /\ isMounted /\ failedSaves = 1 /\ ~isSaving /\ inflight = <<>>
    /\ putCount = 2 /\ lastPut = Current /\ bursts >= 1

\* C12: with noteId unset and onContentChange supplied, the changes of one
\* burst (each less than the notification window after the previous one)
\* lead to exactly one debounced onContentChange(content, title), carrying
\* the latest content and title; content is never reported immediately and
\* no save is scheduled; with noteId set no debounced notification is
\* scheduled.
NotifyPending == debouncedContentChange.ms # NoTimer \/ orphans # <<>>
LatestNotify == IF debouncedContentChange.ms # NoTimer
                THEN debouncedContentChange
                ELSE orphans[Len(orphans)]
C12_OneNotifyPerBurst ==
    /\ (~HasNoteId /\ onContentChange /\ edits >= 1) =>
          /\ notifyBurstCalls <= 1
          /\ NotifyPending =>
                LatestNotify.args.content = value
                /\ LatestNotify.args.title = title
          /\ ~NotifyPending =>
                /\ notifyBurstCalls = 1
                /\ lastHomepageArg.content = value
                /\ lastHomepageArg.title = title
    /\ ~HasNoteId =>
          contentCalls = 0 /\ debouncedSave = Idle /\ putCount = 0
    /\ HasNoteId =>
          debouncedContentChange = Idle /\ orphans = <<>> /\ homepageCalls = 0

\* C13: the view is one of Loading, Disabled, Normal: Loading whenever
\* isLoading (also when disabled), else Disabled whenever isDisabled, else
\* Normal; a user edit of title or content happens in the Normal view only.
C13_ViewPriority ==
    /\ [](/\ View \in {"Loading", "Disabled", "Normal"}
          /\ isLoading => View = "Loading"
          /\ (~isLoading /\ isDisabled) => View = "Disabled"
          /\ (~isLoading /\ ~isDisabled) => View = "Normal")
    /\ [][UserEdit => (~isLoading /\ ~isDisabled)]_vars

C13_Witness ==
    pc = "mounted" /\ isLoading /\ isDisabled /\ View = "Loading"

\* C14: with noteId set and no initialData, as long as isLoading has not
\* been cleared no save is scheduled, no PUT has been issued and none is in
\* flight, whatever changes meanwhile.
C14_NoSaveWhileLoading ==
    (NeedsLoad /\ isLoading) =>
        putCount = 0 /\ inflight = <<>> /\ debouncedSave = Idle

\* logoText changed while the load was outstanding
C14_Witness ==
    /\ NeedsLoad /\ isLoading /\ loadReq = "pending"
    /\ logoText # DefaultLogo /\ sinceEdit = SaveDelayMs

C16_NoPutWithoutChange ==
    (HasNoteId /\ initialData.present /\ edits = 0) => putCount = 0

\* C17: a pending save is eventually issued, also after unmount: the timer
\* ends idle with the last PUT carrying the current content, title and
\* logoText; and a save issued or completed after unmount changes no state
\* cell.
C17_UnmountKeepsPendingSave ==
    /\ [](HasNoteId /\ debouncedSave.ms # NoTimer =>
            <>(debouncedSave.ms = NoTimer /\ lastPut = Current))
    /\ [][(~isMounted /\ (putCount' # putCount \/ inflight' # inflight)) =>
            cells' = cells
        ]_vars

\* The PUT of an edit was issued after unmount.
C17_Witness ==
    /\ ~isMounted /\ bursts >= 1 /\ putCount = 1 /\ Len(inflight) = 1
    /\ ~isSaving /\ lastPut = Current /\ loadReq = "ok"

\* C18: every PUT carries the arguments of the pending debounced call,
\* which are the content, title and logoText current when it is issued (so
\* no PUT carries a state older than an earlier PUT's), PUTs enter flight
\* in issue order, and once no save is pending the last PUT carries the
\* current content, title and logoText.
C18_PutCarriesScheduledArgs ==
    /\ [][putCount' # putCount =>
            /\ lastPut' = debouncedSave.args
            /\ lastPut' = Current
            /\ inflight' = Append(inflight, lastPut')
        ]_vars
    /\ []((HasNoteId /\ putCount >= 1 /\ debouncedSave.ms = NoTimer) =>
            lastPut = Current)

C18_Witness ==
    /\ putCount = 2 /\ edits = 2 /\ logoText # DefaultLogo /\ value = "a"
    /\ debouncedSave.ms = NoTimer /\ lastPut = Current

====
